---------------------------- MODULE Spec2Model ----------------------------
(***************************************************************************)
(* Model of FlaskApp/flaskapp.py: the POST handler my_form_post, which     *)
(* validates a block of text, sanitizes and scores it line by line, and    *)
(* returns either a table of results or a rejection message.               *)
(*                                                                         *)
(* A text is a sequence of tokens.  A token is a run of n plain            *)
(* characters, one "&", one markup tag, one character entity, or one line  *)
(* terminator character: LF, CR, or LS, which stands for any of the other  *)
(* characters str.splitlines() breaks at (VT, FF, FS, GS, RS, NEL, U+2028, *)
(* U+2029).  Lengths are counted in characters, as Python's len() counts   *)
(* them.                                                                   *)
(***************************************************************************)
EXTENDS Integers, Sequences, FiniteSets, TLC

VARIABLES
    text,          \* request.form['text1']
    verified,      \* what recaptcha.verify() returns for this request
    papi,          \* request.form.get("papi") is truthy
    pc,            \* position of the handler
    rows,          \* the list text.splitlines() the for loop iterates over
    i,             \* number of rows the loop has consumed
    results_list,  \* the list of result dicts
    remoteCalls,   \* calls sent to the commentanalyzer service, in order
    serviceSaid,   \* what the service did for each consumed row
    response       \* what the handler returned

vars == <<text, verified, papi, pc, rows, i, results_list, remoteCalls,
          serviceSaid, response>>

---------------------------------------------------------------------------
(* Program constants *)

LINES_LT == 52          \* len(text.splitlines()) < 52
LINES_GT == 51          \* len(text.splitlines()) > 51
CHARS_LT == 125000      \* len(text) < 125000
CHARS_GT == 125000      \* len(text) > 125000
ROW_GT == 2900          \* len(safe_row) > 2900
ADVERTISED_LINES == 50  \* "Please submit 50 or fewer lines of text."

(* Bounds of the model *)

MaxSmallLines == 2      \* lines of the exhaustively enumerated short texts
MaxRemoteFailures == 1  \* service failures per request
LongLines == 40         \* long lines at the start of the many-line texts

---------------------------------------------------------------------------
(* Tokens *)

T(n) == [k |-> "txt", name |-> "", n |-> n]
Amp == [k |-> "amp", name |-> "&", n |-> 1]
Ent(s) == [k |-> "ent", name |-> s, n |-> Len(s)]
Tag(s) == [k |-> "tag", name |-> s, n |-> Len(s) + 2]
LF == [k |-> "lf", name |-> "", n |-> 1]
CR == [k |-> "cr", name |-> "", n |-> 1]
LS == [k |-> "ls", name |-> "", n |-> 1]

(* len(): the number of characters of a token sequence *)
RECURSIVE LenBetween(_, _, _)
LenBetween(s, lo, hi) ==
    IF lo > hi THEN 0
    ELSE IF lo = hi THEN s[lo].n
    ELSE LET mid == (lo + hi) \div 2
         IN LenBetween(s, lo, mid) + LenBetween(s, mid + 1, hi)

TextLen(s) == LenBetween(s, 1, Len(s))

(* The positions lo..hi of s where a line terminator starts, in order: a   *)
(* CR, an LS, or an LF that does not follow a CR.                          *)
RECURSIVE BreaksIn(_, _, _)
BreaksIn(s, lo, hi) ==
    IF lo > hi THEN <<>>
    ELSE IF lo = hi
    THEN IF \/ s[lo].k \in {"cr", "ls"}
            \/ (s[lo].k = "lf" /\ (lo = 1 \/ s[lo - 1].k # "cr"))
         THEN <<lo>> ELSE <<>>
    ELSE LET mid == (lo + hi) \div 2
         IN BreaksIn(s, lo, mid) \o BreaksIn(s, mid + 1, hi)

(* str.splitlines(): a line ends at LF, CR, CR LF or LS; the terminators   *)
(* are not part of the lines; text after the last terminator is a line     *)
(* only when it is not empty.                                              *)
splitlines(s) ==
    LET b == BreaksIn(s, 1, Len(s))
        nb == Len(b)
        BreakEnd(j) == IF s[j].k = "cr" /\ j < Len(s) /\ s[j + 1].k = "lf"
                       THEN j + 1 ELSE j
        From(k) == IF k = 1 THEN 1 ELSE BreakEnd(b[k - 1]) + 1
        ended == [k \in 1..nb |-> SubSeq(s, From(k), b[k] - 1)]
        rest == SubSeq(s, From(nb + 1), Len(s))
    IN IF rest = <<>> THEN ended ELSE Append(ended, rest)

(* Sanitizer({"tags": {"a","hr","br","b","li","p"}, ...}).sanitize(row):   *)
(* tags outside the allow-list are removed, "&" is written as the entity   *)
(* "&amp;", everything else is kept.                                       *)
AllowedTags == {"a", "hr", "br", "b", "li", "p"}

SanitizeToken(t) ==
    IF t.k = "tag" /\ t.name \notin AllowedTags THEN <<>>
    ELSE IF t.k = "amp" THEN <<Ent("&amp;")>>
    ELSE <<t>>

RECURSIVE sanitize(_)
sanitize(row) ==
    IF row = <<>> THEN <<>> ELSE SanitizeToken(Head(row)) \o sanitize(Tail(row))

---------------------------------------------------------------------------
(* Result dicts *)

TEXT == "text"
VADER == "VADER: -1.0 (negative emotion) to +1.0 (positive emotion)"
TB_POLARITY == "textblob polarity: -1.0 (negative) to +1.0 (positive)"
TB_OBJECTIVE == "textblob objective: 0.0 (objective) to +1.0 (subjective)"
PERSPECTIVE == "perspective: 0.0 (not toxic) to +1.0 (toxic)"

LocalColumns == {VADER, TB_POLARITY, TB_OBJECTIVE}

(* A cell: the text itself, the rounded score an engine gave for a text,   *)
(* or the string "ERROR: " + str(e).                                       *)
TextCell(s) == [kind |-> "text", by |-> "", arg |-> s]
Score(engine, s) == [kind |-> "score", by |-> engine, arg |-> s]
ErrorCell(msg) == [kind |-> "error", by |-> msg, arg |-> <<>>]

Put(d, key, v) == [x \in (DOMAIN d) \cup {key} |-> IF x = key THEN v ELSE d[x]]

EmptyDict == [x \in {} |-> TextCell(<<>>)]

TOO_LONG == "Line too long (max 2500 characters)"

(* What the service can do with one analyze call, and str(e) of the        *)
(* exception each failure raises inside the try block.                     *)
ServiceOutcomes == {"ok", "http_error", "malformed"}
ServiceFailures == ServiceOutcomes \ {"ok"}
ExceptionText(o) == IF o = "http_error" THEN "HttpError" ELSE "KeyError"

---------------------------------------------------------------------------
(* Requests *)

Short == <<T(3)>>
Markup == <<Tag("i"), T(2), Tag("br"), Amp>>
AtCeiling == <<T(ROW_GT)>>
OverCeiling == <<T(ROW_GT + 1)>>
RawOverSafeUnder == <<Tag("script"), T(ROW_GT - 5)>>
RawUnderSafeOver == <<T(ROW_GT - 2), Amp>>

LineKinds == {<<>>, Short, Markup, AtCeiling, OverCeiling, RawOverSafeUnder,
              RawUnderSafeOver}

Terminators == {<<LF>>, <<CR, LF>>, <<LS>>}

RECURSIVE Concat(_, _, _)
Concat(ss, lo, hi) ==
    IF lo > hi THEN <<>>
    ELSE IF lo = hi THEN ss[lo]
    ELSE LET mid == (lo + hi) \div 2
         IN Concat(ss, lo, mid) \o Concat(ss, mid + 1, hi)

(* The text whose lines are ls, sep between them and last after the last. *)
Join(ls, sep, last) ==
    Concat([k \in 1..Len(ls) |-> ls[k] \o (IF k < Len(ls) THEN sep ELSE last)],
           1, Len(ls))

RECURSIVE SeqsUpTo(_, _)
SeqsUpTo(S, n) ==
    IF n = 0 THEN {<<>>}
    ELSE LET shorter == SeqsUpTo(S, n - 1)
         IN shorter \cup {Append(q, x) : q \in {r \in shorter : Len(r) = n - 1}, x \in S}

Repeat(x, n) == [j \in 1..n |-> x]

(* Short texts, every combination of line kinds. *)
SmallTexts ==
    {Join(ls, sep, last) : ls \in SeqsUpTo(LineKinds, MaxSmallLines),
                           sep \in Terminators, last \in {<<>>, <<LF>>}}

(* Texts around the line-count limit: LongLines identical lines over the   *)
(* service's ceiling, then identical short lines, then one last line that  *)
(* is different, possibly a very long one.                                 *)
ManyLineTexts ==
    {Join(Repeat(OverCeiling, LongLines) \o Repeat(Short, n - LongLines - 1)
              \o <<last>>, <<CR, LF>>, <<>>) :
        n \in ADVERTISED_LINES..(LINES_LT + 1),
        last \in {Markup, <<T(CHARS_GT)>>}}

(* Texts around the size limit. *)
LargeTexts ==
    {<<T(m)>> \o last : m \in (CHARS_LT - 2)..(CHARS_LT + 1),
                        last \in {<<>>, <<LF>>}}

Texts == SmallTexts \cup ManyLineTexts \cup LargeTexts

---------------------------------------------------------------------------
(* The handler *)

Init ==
    /\ text \in Texts
    /\ verified \in BOOLEAN
    /\ papi \in BOOLEAN
    /\ pc = "validate"
    /\ rows = <<>>
    /\ i = 0
    /\ results_list = <<>>
    /\ remoteCalls = <<>>
    /\ serviceSaid = <<>>
    /\ response = [kind |-> "none"]

(* line 38 without the verification check *)
Accepts_noVerify(t, v) ==
    Len(splitlines(t)) < LINES_LT /\ TextLen(t) < CHARS_LT

(* line 38 *)
Accepts(t, v) ==
    v /\ Len(splitlines(t)) < LINES_LT /\ TextLen(t) < CHARS_LT

(* lines 95-102 with the line count reported in the size message *)
Rejection_wrongActual(t) ==
    IF Len(splitlines(t)) > LINES_GT
    THEN [kind |-> "rejected", reason |-> "too-many-lines",
          actual |-> Len(splitlines(t)), text1 |-> <<>>]
    ELSE IF TextLen(t) > CHARS_GT
    THEN [kind |-> "rejected", reason |-> "too-large",
          actual |-> Len(splitlines(t)), text1 |-> <<>>]
    ELSE [kind |-> "rejected", reason |-> "verification-failed",
          actual |-> 0, text1 |-> <<>>]

(* lines 95-102 *)
Rejection(t) ==
    IF Len(splitlines(t)) > LINES_GT
    THEN [kind |-> "rejected", reason |-> "too-many-lines",
          actual |-> Len(splitlines(t)), text1 |-> <<>>]
    ELSE IF TextLen(t) > CHARS_GT
    THEN [kind |-> "rejected", reason |-> "too-large",
          actual |-> TextLen(t), text1 |-> <<>>]
    ELSE [kind |-> "rejected", reason |-> "verification-failed",
          actual |-> 0, text1 |-> <<>>]

Accept ==
    /\ pc = "validate"
    /\ Accepts(text, verified)
    /\ pc' = "build"
    /\ UNCHANGED <<text, verified, papi, rows, i, results_list, remoteCalls,
                   serviceSaid, response>>

Reject ==
    /\ pc = "validate"
    /\ ~Accepts(text, verified)
    /\ response' = Rejection(text)
    /\ pc' = "done"
    /\ UNCHANGED <<text, verified, papi, rows, i, results_list, remoteCalls,
                   serviceSaid>>

(* lines 48-53: discovery.build(..., static_discovery=False) fetches the   *)
(* discovery document from discoveryServiceUrl; when the fetch fails the   *)
(* exception leaves the handler.                                           *)
BuildClient ==
    /\ pc = "build"
    /\ remoteCalls' = Append(remoteCalls, [op |-> "discovery", body |-> <<>>])
    /\ \E ok \in BOOLEAN :
         IF ok
         THEN /\ pc' = "loop"
              /\ rows' = splitlines(text)
              /\ response' = response
         ELSE /\ pc' = "done"
              /\ rows' = rows
              /\ response' = [kind |-> "exception"]
    /\ UNCHANGED <<text, verified, papi, i, results_list, serviceSaid>>

(* lines 56-64 *)
LocalResult(safe_row) ==
    LET r0 == Put(EmptyDict, TEXT, TextCell(safe_row))
        r1 == Put(r0, VADER, Score("vader", safe_row))
        r2 == Put(r1, TB_POLARITY, Score("textblob.polarity", safe_row))
    IN Put(r2, TB_OBJECTIVE, Score("textblob.subjectivity", safe_row))

(* lines 66-70 *)
AnalyzeRequest(safe_row) == [op |-> "analyze", body |-> safe_row]

(* line 78 with the ceiling off by one *)
TooLongForService_offByOne(safe_row) == TextLen(safe_row) > ROW_GT + 1

(* line 78: the check that raises before the call is made *)
TooLongForService(safe_row) == TextLen(safe_row) > ROW_GT

(* lines 76-85 with an except branch that records a score, not the error *)
PerspectiveCell_swallow(safe_row, outcome) ==
    IF TextLen(safe_row) > ROW_GT THEN ErrorCell(TOO_LONG)
    ELSE Score("perspective", AnalyzeRequest(safe_row).body)

(* lines 76-85: the cell the try/except leaves in the result; outcome is   *)
(* what the service does when the call is made.                            *)
PerspectiveCell(safe_row, outcome) ==
    IF TooLongForService(safe_row) THEN ErrorCell(TOO_LONG)
    ELSE IF outcome = "ok" THEN Score("perspective", AnalyzeRequest(safe_row).body)
    ELSE ErrorCell(ExceptionText(outcome))

(* line 87 skipping a result whose text is already in the list *)
Appended_dedup(results, result) ==
    IF \E j \in 1..Len(results) : results[j][TEXT] = result[TEXT]
    THEN results ELSE Append(results, result)

(* line 87 *)
Appended(results, result) == Append(results, result)

Failures(said) == Cardinality({j \in 1..Len(said) : said[j] \in ServiceFailures})

(* lines 55-87: one iteration of the loop *)
ProcessRow ==
    /\ pc = "loop"
    /\ i < Len(rows)
    /\ LET safe_row == sanitize(rows[i + 1])
           result == LocalResult(safe_row)
       IN IF ~papi
          THEN /\ results_list' = Appended(results_list, result)
               /\ serviceSaid' = Append(serviceSaid, "not called")
               /\ remoteCalls' = remoteCalls
          ELSE IF TooLongForService(safe_row)
          THEN /\ results_list' = Appended(results_list,
                       Put(result, PERSPECTIVE, PerspectiveCell(safe_row, "ok")))
               /\ serviceSaid' = Append(serviceSaid, "not called")
               /\ remoteCalls' = remoteCalls
          ELSE \E outcome \in ServiceOutcomes :
               /\ outcome \in ServiceFailures => Failures(serviceSaid) < MaxRemoteFailures
               /\ results_list' = Appended(results_list,
                       Put(result, PERSPECTIVE, PerspectiveCell(safe_row, outcome)))
               /\ serviceSaid' = Append(serviceSaid, outcome)
               /\ remoteCalls' = Append(remoteCalls, AnalyzeRequest(safe_row))
    /\ i' = i + 1
    /\ UNCHANGED <<text, verified, papi, pc, rows, response>>

(* lines 89-90: DataFrame.from_records(results_list) with index 1..n *)
ResultTable(records) ==
    [columns |-> IF records = <<>> THEN {} ELSE DOMAIN records[1],
     index |-> [j \in 1..Len(records) |-> j],
     data |-> records]

(* lines 89-93 *)
Render ==
    /\ pc = "loop"
    /\ i = Len(rows)
    /\ response' = [kind |-> "table", final |-> ResultTable(results_list),
                    text1 |-> text]
    /\ pc' = "done"
    /\ UNCHANGED <<text, verified, papi, rows, i, results_list, remoteCalls,
                   serviceSaid>>

Next == Accept \/ Reject \/ BuildClient \/ ProcessRow \/ Render

Spec == Init /\ [][Next]_vars


---------------------------------------------------------------------------
(* Properties *)

Lines == splitlines(text)
NLines == Len(Lines)
Size == TextLen(text)
Done == pc = "done"
TableProduced == Done /\ response.kind = "table"
RejectedAs(reason, actual) ==
    /\ response.kind = "rejected"
    /\ response.reason = reason
    /\ response.actual = actual

LocalCellsHold(row, safe) ==
    /\ row[VADER] = Score("vader", safe)
    /\ row[TB_POLARITY] = Score("textblob.polarity", safe)
    /\ row[TB_OBJECTIVE] = Score("textblob.subjectivity", safe)

(* C1: whenever a table is produced it has one row per line of the input,  *)
(* row k holds the sanitized text of line k and carries index k.           *)
C1_OneRowPerLineInOrder ==
    TableProduced =>
        LET table == response.final
        IN /\ Len(table.data) = NLines
           /\ DOMAIN table.index = 1..NLines
           /\ \A k \in 1..NLines :
                /\ table.data[k][TEXT] = TextCell(sanitize(Lines[k]))
                /\ table.index[k] = k

(* A table of at least two rows made from two identical lines, one of them *)
(* with a failure in its remote cell.                                      *)
C1_Witness ==
    /\ TableProduced
    /\ \E j, k \in 1..NLines :
         /\ j # k
         /\ Lines[j] = Lines[k]
         /\ response.final.data[j][PERSPECTIVE].kind = "error"

(* C2: every verified input of at most 50 lines and at most 125,000        *)
(* characters ends with a table of one row per line, not a rejection.      *)
C2_WithinLimitsAccepted ==
    (Done /\ verified /\ NLines <= ADVERTISED_LINES /\ Size <= CHARS_GT) =>
        /\ response.kind = "table"
        /\ Len(response.final.data) = NLines

(* C3: every input of more than 50 lines is rejected as too-many-lines     *)
(* with its line count, and no table is produced.                          *)
C3_TooManyLinesRejected ==
    (Done /\ NLines > ADVERTISED_LINES) => RejectedAs("too-many-lines", NLines)

(* C4, as claimed: every input longer than 125,000 is rejected as          *)
(* too-large with its length, whatever its line count.                     *)
C4_TooLargeWhateverLines ==
    (Done /\ Size > CHARS_GT) => RejectedAs("too-large", Size)

(* C4: every input longer than 125,000 characters is rejected; as          *)
(* too-large with its length in characters when it has at most 51 lines,   *)
(* as too-many-lines with its line count when it has more.                 *)
C4_TooLargeRejected ==
    (Done /\ Size > CHARS_GT) =>
        IF NLines <= LINES_GT THEN RejectedAs("too-large", Size)
        ELSE RejectedAs("too-many-lines", NLines)

(* A verified request of exactly 51 lines rejected as too-large. *)
C4_Witness ==
    /\ Done /\ verified /\ NLines = LINES_GT /\ Size > CHARS_GT
    /\ response.kind = "rejected" /\ response.reason = "too-large"

(* C5, as claimed: a request that fails verification is rejected as        *)
(* verification-failed, whatever its line count and length.                *)
C5_UnverifiedAlwaysVerificationFailed ==
    (Done /\ ~verified) =>
        /\ response.kind = "rejected"
        /\ response.reason = "verification-failed"

(* C5: a request that fails verification is always rejected and nothing is *)
(* scored; the reason is verification-failed when the input has at most 51 *)
(* lines and at most 125,000 characters, and a size reason otherwise.      *)
C5_UnverifiedRejected ==
    ~verified =>
        /\ pc \in {"validate", "done"}
        /\ results_list = <<>> /\ remoteCalls = <<>>
        /\ Done =>
             /\ response.kind = "rejected"
             /\ (NLines <= LINES_GT /\ Size <= CHARS_GT)
                    => response.reason = "verification-failed"
             /\ (NLines > LINES_GT) => response.reason = "too-many-lines"
             /\ (NLines <= LINES_GT /\ Size > CHARS_GT)
                    => response.reason = "too-large"

(* An unverified request whose text is within both limits is rejected as   *)
(* verification-failed.                                                    *)
C5_Witness ==
    /\ Done /\ ~verified /\ NLines >= 1
    /\ NLines < LINES_LT /\ Size < CHARS_LT
    /\ response.kind = "rejected" /\ response.reason = "verification-failed"

Failed(k) == k <= Len(serviceSaid) /\ serviceSaid[k] \in ServiceFailures

(* C6: a failed remote call for line k leaves the local cells of row k     *)
(* filled and an error in its remote cell; every other row is what its own *)
(* line and its own call make it, and the table is still produced.         *)
C6_RemoteFailureIsolated ==
    \A k \in 1..Len(results_list) :
        Failed(k) =>
            /\ LocalCellsHold(results_list[k], sanitize(rows[k]))
            /\ results_list[k][TEXT] = TextCell(sanitize(rows[k]))
            /\ results_list[k][PERSPECTIVE].kind = "error"
            /\ \A j \in 1..Len(results_list) :
                 j # k =>
                    /\ LocalCellsHold(results_list[j], sanitize(rows[j]))
                    /\ results_list[j][TEXT] = TextCell(sanitize(rows[j]))
                    /\ serviceSaid[j] = "ok" =>
                         results_list[j][PERSPECTIVE]
                            = Score("perspective", sanitize(rows[j]))
            /\ Done => /\ response.kind = "table"
                       /\ response.final.data = results_list
                       /\ Len(results_list) = Len(rows)

(* A table in which the call for one line failed and the call for another  *)
(* line succeeded.                                                         *)
C6_Witness ==
    /\ TableProduced
    /\ \E j, k \in 1..Len(results_list) :
         /\ Failed(k) /\ serviceSaid[j] = "ok"
         /\ response.final.data[j][PERSPECTIVE].kind = "score"

(* C7: without the opt-in no call goes to the remote service, client       *)
(* construction included, and a table has only the local columns.          *)
C7_NoRemoteWithoutOptIn ==
    ~papi =>
        /\ remoteCalls = <<>>
        /\ TableProduced => response.final.columns \subseteq {TEXT} \cup LocalColumns

IsAnalyzeOf(call, safe) == call.op = "analyze" /\ call.body = safe

C9_AcceptedAlwaysEndsWithTable ==
    (Done /\ Accepts(text, verified)) =>
        /\ response.kind = "table"
        /\ Len(response.final.data) = NLines

IsSafe(s) == sanitize(s) = s

(* C10: in an accepted request only sanitized text is used: in the cells   *)
(* of every row, in the bodies sent to the service, and in the text echoed *)
(* back with the table.                                                    *)
C10_OnlySanitizedTextUsed ==
    /\ \A k \in 1..Len(results_list) :
         \A c \in DOMAIN results_list[k] : IsSafe(results_list[k][c].arg)
    /\ \A c \in 1..Len(remoteCalls) : IsSafe(remoteCalls[c].body)
    /\ TableProduced => IsSafe(response.text1)

===========================================================================
